---- MODULE Spec2Model ----
(***************************************************************************)
(* Model of vector<T> (src/vector/vector.h): a raw owned buffer, a live    *)
(* element count and a capacity, with placement construction, explicit     *)
(* destruction and exceptions thrown by the allocator, by T's copy         *)
(* constructor and by std::swap on elements.                               *)
(*                                                                         *)
(* The free store is a map from buffer ids to slot sequences; a slot is    *)
(* Raw (uninitialised) or holds a constructed value.  Slot index i of the  *)
(* source (0-based) is slots[i + 1] here.                                  *)
(***************************************************************************)
EXTENDS Integers, Sequences, FiniteSets, TLC

MaxCap == 2          \* largest capacity a call of Spec may request
MaxCapOne == 4       \* the same in SpecOne, which follows one instance
MaxPush == 7         \* number of push_back calls followed in SpecPush

Values == {1, 2}     \* element values
Vecs == {"a", "b"}   \* the named container instances
Tmp == "tmp"         \* the temporary of operator=
Insts == Vecs \cup {Tmp}
Bufs == 1..(Cardinality(Vecs) + 1)
Raw == 0
nullptr == 0

VARIABLES heap, vec, err, trivial, last, aux

vars == <<heap, vec, err, trivial, last, aux>>

World == [heap |-> heap, vec |-> vec, err |-> err]

FreeBuf == [alloc |-> FALSE, slots |-> <<>>]
NoVec == [live |-> FALSE, data_ |-> nullptr, size_ |-> 0, capacity_ |-> 0]
EmptyVec == [live |-> TRUE, data_ |-> nullptr, size_ |-> 0, capacity_ |-> 0]

NoFail == [at |-> "none", k |-> 0]
Fail(a, k) == [at |-> a, k |-> k]

Flag(w, e) == [w EXCEPT !.err = @ \cup {e}]

InBuf(w, p, i) == /\ p \in Bufs
                  /\ w.heap[p].alloc
                  /\ i >= 0
                  /\ i < Len(w.heap[p].slots)

\* the value read through a T const& designating slot i of buffer p
read_at(w, p, i) == IF InBuf(w, p, i) THEN w.heap[p].slots[i + 1] ELSE Raw

\* new(p + i) T(x)
construct_at(w, p, i, x) ==
  IF ~InBuf(w, p, i) THEN Flag(w, "bad_access")
  ELSE IF x = Raw THEN Flag(w, "read_raw")
  ELSE IF w.heap[p].slots[i + 1] # Raw THEN Flag(w, "construct_live")
  ELSE [w EXCEPT !.heap[p].slots[i + 1] = x]

\* p[i].~T()
destroy_at(w, p, i) ==
  IF ~InBuf(w, p, i) THEN Flag(w, "bad_access")
  ELSE IF w.heap[p].slots[i + 1] = Raw THEN Flag(w, "destroy_raw")
  ELSE [w EXCEPT !.heap[p].slots[i + 1] = Raw]

RECURSIVE destroy_elements(_, _, _)
destroy_elements(w, data, size) ==
  IF size > 0 THEN destroy_elements(destroy_at(w, data, size - 1), data, size - 1)
  ELSE w

\* operator new(n * sizeof(T)); throws when told to or when the store is used up
allocate_data(w, n, fail) ==
  LET free == {b \in Bufs : ~w.heap[b].alloc}
  IN IF fail \/ free = {}
     THEN [w |-> w, ptr |-> nullptr, thrown |-> TRUE]
     ELSE LET b == CHOOSE c \in free : \A d \in free : c <= d
          IN [w |-> [w EXCEPT !.heap[b] = [alloc |-> TRUE, slots |-> [i \in 1..n |-> Raw]]],
              ptr |-> b, thrown |-> FALSE]

\* operator delete(p)
operator_delete(w, p) ==
  IF p = nullptr THEN w
  ELSE IF ~w.heap[p].alloc THEN Flag(w, "double_free")
  ELSE LET w1 == IF \E i \in 1..Len(w.heap[p].slots) : w.heap[p].slots[i] # Raw
                 THEN Flag(w, "free_live") ELSE w
       IN [w1 EXCEPT !.heap[p] = FreeBuf]

\* copy_loop without the catch block that destroys the copies already made
RECURSIVE copy_loop_norollback(_, _, _, _, _, _)
copy_loop_norollback(w, src, dst, size, i, k) ==
  IF i = size THEN [w |-> w, thrown |-> FALSE]
  ELSE IF i = k THEN [w |-> w, thrown |-> TRUE]
  ELSE copy_loop_norollback(construct_at(w, dst, i, read_at(w, src, i)), src, dst, size, i + 1, k)

\* the element-by-element branch of copy_elements; the copy of element k throws
RECURSIVE copy_loop(_, _, _, _, _, _)
copy_loop(w, src, dst, size, i, k) ==
  IF i = size THEN [w |-> w, thrown |-> FALSE]
  ELSE IF i = k THEN [w |-> destroy_elements(w, dst, i), thrown |-> TRUE]
  ELSE copy_loop(construct_at(w, dst, i, read_at(w, src, i)), src, dst, size, i + 1, k)

\* std::memcpy(dst, src, size * sizeof(T))
memcpy(w, src, dst, size) ==
  IF size = 0 THEN w
  ELSE IF ~InBuf(w, src, size - 1) \/ ~InBuf(w, dst, size - 1) THEN Flag(w, "bad_access")
  ELSE [w EXCEPT !.heap[dst].slots =
          [i \in 1..Len(@) |-> IF i <= size THEN w.heap[src].slots[i] ELSE @[i]]]

copy_elements(w, src, dst, size, k, triv) ==
  IF triv THEN [w |-> memcpy(w, src, dst, size), thrown |-> FALSE]
  ELSE copy_loop(w, src, dst, size, 0, k)

\* the index of the element whose copy throws; size when none does
CopyFail(fl, size) == IF fl.at = "copy" THEN fl.k ELSE size

\* growth by one slot instead of doubling
calc_new_capacity_plus1(capacity) == capacity + 1

calc_new_capacity(capacity) == IF capacity = 0 THEN 1 ELSE capacity * 2

Ok(w) == [w |-> w, thrown |-> FALSE]
Thrown(w) == [w |-> w, thrown |-> TRUE]

\* new_buffer from the end of the try block: c is what copy_elements left
new_buffer_commit(v, new_capacity, new_data, c) ==
  IF c.thrown
  THEN Thrown(operator_delete(c.w, new_data))
  ELSE Ok([operator_delete(IF c.w.vec[v].size_ # 0
                           THEN destroy_elements(c.w, c.w.vec[v].data_, c.w.vec[v].size_)
                           ELSE c.w,
                           c.w.vec[v].data_)
             EXCEPT !.vec[v].data_ = new_data, !.vec[v].capacity_ = new_capacity])

\* new_buffer from the allocation on: a is what allocate_data returned
new_buffer_copy(w, v, new_capacity, fl, triv, a) ==
  IF a.thrown THEN Thrown(w)
  ELSE new_buffer_commit(v, new_capacity, a.ptr,
         IF w.vec[v].size_ # 0
         THEN copy_elements(a.w, w.vec[v].data_, a.ptr, w.vec[v].size_,
                            CopyFail(fl, w.vec[v].size_), triv)
         ELSE Ok(a.w))

\* new_buffer without the new_capacity != 0 test: a buffer of no slots is allocated
new_buffer_alloc0(w, v, new_capacity, fl, triv) ==
  new_buffer_copy(w, v, new_capacity, fl, triv,
                  allocate_data(w, new_capacity, fl.at = "alloc"))

new_buffer(w, v, new_capacity, fl, triv) ==
  new_buffer_copy(w, v, new_capacity, fl, triv,
                  IF new_capacity # 0
                  THEN allocate_data(w, new_capacity, fl.at = "alloc")
                  ELSE [w |-> w, ptr |-> nullptr, thrown |-> FALSE])

\* an argument of type T const&: a value of the caller's, or (ref) slot i of buffer p
ValArg(x) == [ref |-> FALSE, x |-> x, p |-> nullptr, i |-> 0]
RefArg(p, i) == [ref |-> TRUE, x |-> Raw, p |-> p, i |-> i]
deref(w, element) == IF element.ref THEN read_at(w, element.p, element.i) ELSE element.x

default_ctor(w, v) == [w EXCEPT !.vec[v] = EmptyVec]

\* a clear that also gives the buffer back
clear_release(w, v) ==
  [operator_delete(destroy_elements(w, w.vec[v].data_, w.vec[v].size_), w.vec[v].data_)
     EXCEPT !.vec[v].size_ = 0, !.vec[v].capacity_ = 0, !.vec[v].data_ = nullptr]

clear(w, v) ==
  [destroy_elements(w, w.vec[v].data_, w.vec[v].size_) EXCEPT !.vec[v].size_ = 0]

\* ~vector(); the instance is gone afterwards
dtor(w, v) ==
  [operator_delete(clear(w, v), w.vec[v].data_) EXCEPT !.vec[v] = NoVec]

\* a copy constructor whose failure does not run ~vector() on the new instance
copy_ctor_commit_leak(v, osize, c) ==
  IF c.thrown THEN Thrown([c.w EXCEPT !.vec[v] = NoVec])
  ELSE Ok([c.w EXCEPT !.vec[v].size_ = osize, !.vec[v].capacity_ = osize])

\* the copy constructor after copy_elements: c is what it left
copy_ctor_commit(v, osize, c) ==
  IF c.thrown THEN Thrown(dtor(c.w, v))
  ELSE Ok([c.w EXCEPT !.vec[v].size_ = osize, !.vec[v].capacity_ = osize])

\* the copy constructor from the allocation on: a is what allocate_data returned
copy_ctor_copy(w0, v, other, fl, triv, a) ==
  IF a.thrown THEN Thrown(dtor(w0, v))
  ELSE copy_ctor_commit(v, w0.vec[other].size_,
         copy_elements([a.w EXCEPT !.vec[v].data_ = a.ptr], w0.vec[other].data_, a.ptr,
                       w0.vec[other].size_, CopyFail(fl, w0.vec[other].size_), triv))

\* a copy constructor that copies the three members instead of the elements
copy_ctor_shallow(w, v, other, fl, triv) ==
  Ok([w EXCEPT !.vec[v] = [live |-> TRUE, data_ |-> w.vec[other].data_,
                           size_ |-> w.vec[other].size_,
                           capacity_ |-> w.vec[other].capacity_]])

\* a copy constructor without the other.size_ != 0 test
copy_ctor_always(w, v, other, fl, triv) ==
  copy_ctor_copy(default_ctor(w, v), v, other, fl, triv,
                 allocate_data(default_ctor(w, v), w.vec[other].size_, fl.at = "alloc"))

\* vector(vector const& other): the delegated vector() has completed, so an
\* exception leaving the body runs ~vector() on the new instance
copy_ctor(w, v, other, fl, triv) ==
  IF w.vec[other].size_ # 0
  THEN copy_ctor_copy(default_ctor(w, v), v, other, fl, triv,
                      allocate_data(default_ctor(w, v), w.vec[other].size_, fl.at = "alloc"))
  ELSE Ok(default_ctor(w, v))

\* a swap that leaves capacity_ where it is
swap_nocap(w, v, other) ==
  [w EXCEPT !.vec[v].data_ = w.vec[other].data_,
            !.vec[other].data_ = w.vec[v].data_,
            !.vec[v].size_ = w.vec[other].size_,
            !.vec[other].size_ = w.vec[v].size_]

swap(w, v, other) ==
  [w EXCEPT !.vec[v].data_ = w.vec[other].data_,
            !.vec[other].data_ = w.vec[v].data_,
            !.vec[v].size_ = w.vec[other].size_,
            !.vec[other].size_ = w.vec[v].size_,
            !.vec[v].capacity_ = w.vec[other].capacity_,
            !.vec[other].capacity_ = w.vec[v].capacity_]

\* operator= after the copy: c is what vector(other) left in the temporary
assign_swap(v, c) ==
  IF c.thrown THEN c ELSE Ok(dtor(swap(c.w, Tmp, v), Tmp))

\* an operator= that clears *this before it copies other
assign_clear_first(w, v, other, fl, triv) ==
  IF v # other
  THEN assign_swap(v, copy_ctor(clear(w, v), Tmp, other, fl, triv))
  ELSE Ok(w)

\* operator=: vector(other).swap(*this), then the temporary is destroyed
assign(w, v, other, fl, triv) ==
  IF v # other
  THEN assign_swap(v, copy_ctor(w, Tmp, other, fl, triv))
  ELSE Ok(w)

\* push_back after new_buffer: n is what it left, tmp the copy of the argument
push_back_construct(v, tmp, fl, n) ==
  IF n.thrown THEN n
  ELSE IF fl.at = "construct" THEN Thrown(n.w)
  ELSE Ok([construct_at(n.w, n.w.vec[v].data_, n.w.vec[v].size_, tmp)
             EXCEPT !.vec[v].size_ = @ + 1])

\* a push_back that reads the argument after new_buffer, without T tmp = element
push_back_late(v, element, fl, n) ==
  push_back_construct(v, deref(n.w, element), fl, n)

push_back_notmp(w, v, element, fl, triv) ==
  IF w.vec[v].size_ = w.vec[v].capacity_
  THEN IF fl.at = "tmp" THEN Thrown(w)
       ELSE push_back_late(v, element, fl,
                           new_buffer(w, v, calc_new_capacity(w.vec[v].capacity_), fl, triv))
  ELSE IF fl.at = "construct" THEN Thrown(w)
       ELSE Ok([construct_at(w, w.vec[v].data_, w.vec[v].size_, deref(w, element))
                  EXCEPT !.vec[v].size_ = @ + 1])

push_back(w, v, element, fl, triv) ==
  IF w.vec[v].size_ = w.vec[v].capacity_
  THEN IF fl.at = "tmp" THEN Thrown(w)
       ELSE push_back_construct(v, deref(w, element), fl,
                                new_buffer(w, v, calc_new_capacity(w.vec[v].capacity_), fl, triv))
  ELSE IF fl.at = "construct" THEN Thrown(w)
       ELSE Ok([construct_at(w, w.vec[v].data_, w.vec[v].size_, deref(w, element))
                  EXCEPT !.vec[v].size_ = @ + 1])

pop_back(w, v) ==
  destroy_at([w EXCEPT !.vec[v].size_ = @ - 1], w.vec[v].data_, w.vec[v].size_ - 1)

\* a reserve that reallocates to whatever capacity is asked for
reserve_exact(w, v, new_capacity, fl, triv) ==
  IF new_capacity # w.vec[v].capacity_ /\ new_capacity >= w.vec[v].size_
  THEN new_buffer(w, v, new_capacity, fl, triv)
  ELSE Ok(w)

reserve(w, v, new_capacity, fl, triv) ==
  IF new_capacity > w.vec[v].capacity_
  THEN new_buffer(w, v, new_capacity, fl, triv)
  ELSE Ok(w)

\* a shrink_to_fit that also reallocates a full buffer
shrink_to_fit_full(w, v, fl, triv) ==
  IF w.vec[v].size_ <= w.vec[v].capacity_ /\ w.vec[v].capacity_ # 0
  THEN new_buffer(w, v, w.vec[v].size_, fl, triv)
  ELSE Ok(w)

shrink_to_fit(w, v, fl, triv) ==
  IF w.vec[v].size_ < w.vec[v].capacity_
  THEN new_buffer(w, v, w.vec[v].size_, fl, triv)
  ELSE Ok(w)

\* std::swap(a, b) on elements: T tmp = a; a = b; b = tmp.  "swap0" throws
\* before a is written, "swap1" throws in b = tmp, after a = b
std_swap(w, data, a, b, i, fl) ==
  IF ~InBuf(w, data, a) \/ ~InBuf(w, data, b)
  THEN [w |-> Flag(w, "bad_access"), thrown |-> TRUE]
  ELSE IF w.heap[data].slots[a + 1] = Raw \/ w.heap[data].slots[b + 1] = Raw
  THEN [w |-> Flag(w, "read_raw"), thrown |-> TRUE]
  ELSE IF fl.at = "swap0" /\ fl.k = i THEN [w |-> w, thrown |-> TRUE]
  ELSE IF fl.at = "swap1" /\ fl.k = i
  THEN [w |-> [w EXCEPT !.heap[data].slots[a + 1] = w.heap[data].slots[b + 1]],
        thrown |-> TRUE]
  ELSE [w |-> [w EXCEPT !.heap[data].slots[a + 1] = w.heap[data].slots[b + 1],
                        !.heap[data].slots[b + 1] = w.heap[data].slots[a + 1]],
        thrown |-> FALSE]

\* the shifting loop of insert stopping one swap early
RECURSIVE insert_loop_early(_, _, _, _, _)
insert_loop_early(w, data, i, cur, fl) ==
  IF i <= cur + 1 THEN [w |-> w, thrown |-> FALSE]
  ELSE LET s == std_swap(w, data, i, i - 1, i, fl)
       IN IF s.thrown THEN s ELSE insert_loop_early(s.w, data, i - 1, cur, fl)

\* for (iterator i = end() - 1; i != cur; --i) std::swap(*i, *(i - 1));
RECURSIVE insert_loop(_, _, _, _, _)
insert_loop(w, data, i, cur, fl) ==
  IF i = cur THEN [w |-> w, thrown |-> FALSE]
  ELSE LET s == std_swap(w, data, i, i - 1, i, fl)
       IN IF s.thrown THEN s ELSE insert_loop(s.w, data, i - 1, cur, fl)

\* insert after the loop: l is what the loop left
insert_return(ind, l) ==
  [w |-> l.w, thrown |-> l.thrown, ret |-> IF l.thrown THEN 0 ELSE ind]

\* insert taking size_ back, without destroying the element, when a swap throws
insert_unsize(v, ind, l) ==
  IF l.thrown
  THEN [w |-> [l.w EXCEPT !.vec[v].size_ = @ - 1], thrown |-> TRUE, ret |-> 0]
  ELSE [w |-> l.w, thrown |-> FALSE, ret |-> ind]

insert_shift_unsize(v, ind, fl, p) ==
  IF p.thrown THEN [w |-> p.w, thrown |-> TRUE, ret |-> 0]
  ELSE insert_unsize(v, ind, insert_loop(p.w, p.w.vec[v].data_, p.w.vec[v].size_ - 1, ind, fl))

\* insert after push_back: p is what it left
insert_shift(v, ind, fl, p) ==
  IF p.thrown THEN [w |-> p.w, thrown |-> TRUE, ret |-> 0]
  ELSE insert_return(ind, insert_loop(p.w, p.w.vec[v].data_, p.w.vec[v].size_ - 1, ind, fl))

insert(w, v, ind, element, fl, triv) ==
  insert_shift(v, ind, fl, push_back(w, v, element, fl, triv))

\* the shifting loop of erase swapping with the next element instead of i + cnt
RECURSIVE erase_loop_adjacent(_, _, _, _, _, _)
erase_loop_adjacent(w, data, i, stop, cnt, fl) ==
  IF i = stop THEN [w |-> w, thrown |-> FALSE]
  ELSE LET s == std_swap(w, data, i, i + 1, i, fl)
       IN IF s.thrown THEN s ELSE erase_loop_adjacent(s.w, data, i + 1, stop, cnt, fl)

\* for (iterator i = begin() + f_shift; i != end() - cnt; ++i) std::iter_swap(i, i + cnt);
RECURSIVE erase_loop(_, _, _, _, _, _)
erase_loop(w, data, i, stop, cnt, fl) ==
  IF i = stop THEN [w |-> w, thrown |-> FALSE]
  ELSE LET s == std_swap(w, data, i, i + cnt, i, fl)
       IN IF s.thrown THEN s ELSE erase_loop(s.w, data, i + 1, stop, cnt, fl)

\* for (size_t i = 0; i != cnt; ++i) pop_back();
RECURSIVE pop_loop(_, _, _)
pop_loop(w, v, cnt) == IF cnt = 0 THEN w ELSE pop_loop(pop_back(w, v), v, cnt - 1)

\* erase after the shifting loop: l is what the loop left
erase_pop(v, f_shift, cnt, l) ==
  IF l.thrown THEN [w |-> l.w, thrown |-> TRUE, ret |-> 0]
  ELSE [w |-> pop_loop(l.w, v, cnt), thrown |-> FALSE, ret |-> f_shift]

\* an erase that returns begin() + f_shift for the empty range as well
erase_ret_first(w, v, f_shift, l_shift, fl) ==
  IF l_shift - f_shift <= 0 THEN [w |-> w, thrown |-> FALSE, ret |-> f_shift]
  ELSE erase_pop(v, f_shift, l_shift - f_shift,
                 erase_loop(w, w.vec[v].data_, f_shift,
                            w.vec[v].size_ - (l_shift - f_shift), l_shift - f_shift, fl))

erase(w, v, f_shift, l_shift, fl) ==
  IF l_shift - f_shift <= 0 THEN [w |-> w, thrown |-> FALSE, ret |-> l_shift]
  ELSE erase_pop(v, f_shift, l_shift - f_shift,
                 erase_loop(w, w.vec[v].data_, f_shift,
                            w.vec[v].size_ - (l_shift - f_shift), l_shift - f_shift, fl))

\* erase(pos) forwarding the empty range [pos, pos)
erase1_empty(w, v, pos, fl) == erase(w, v, pos, pos, fl)

\* erase(pos) == erase(pos, pos + 1)
erase1(w, v, pos, fl) == erase(w, v, pos, pos + 1, fl)

\* v[i] = x through the reference operator[] returns
write(w, v, i, x) ==
  IF ~InBuf(w, w.vec[v].data_, i) THEN Flag(w, "bad_access")
  ELSE IF w.heap[w.vec[v].data_].slots[i + 1] = Raw THEN Flag(w, "read_raw")
  ELSE [w EXCEPT !.heap[w.vec[v].data_].slots[i + 1] = x]


----------------------------------------------------------------------------
(* The calls a client makes.  last records the latest call: its operation,  *)
(* the instance, the other instance, what threw ("none": it returned), the  *)
(* index of the returned iterator, its index arguments a1 and a2 and the    *)
(* value x passed.  aux.pc tells the                                        *)
(* specification apart: "two" follows two instances (Spec) and names only   *)
(* the operations between instances, "one" follows one instance (SpecOne),  *)
(* "push" a run of push_back calls (SpecPush), "rt0".."rt2" an insert and   *)
(* the erase that undoes it (SpecRT).                                       *)

\* what threw: the allocator, a copy constructor of T, or a swap of two elements
Kind(fl) == CASE fl.at = "none" -> "none"
              [] fl.at = "alloc" -> "alloc"
              [] fl.at \in {"tmp", "copy", "construct"} -> "copy"
              [] fl.at \in {"swap0", "swap1"} -> "swap"

Call(op, v, other, fl, ret, a1, a2, x) ==
  IF aux.pc = "two"
  THEN [op |-> IF op \in {"vector", "copy", "assign", "swap"} THEN op ELSE "call",
        v |-> v, other |-> other, at |-> Kind(fl), ret |-> 0, a1 |-> 0, a2 |-> 0, x |-> 0]
  ELSE [op |-> op, v |-> v, other |-> other, at |-> Kind(fl), ret |-> ret,
        a1 |-> a1, a2 |-> a2, x |-> x]

CapLimit == CASE aux.pc = "two" -> MaxCap
              [] aux.pc = "one" -> MaxCapOne
              [] aux.pc = "push" -> 2 * MaxPush
              [] OTHER -> 2 * MaxCapOne

\* the element sequence of instance v
Contents(w, v) ==
  IF w.vec[v].data_ = nullptr THEN <<>>
  ELSE SubSeq(w.heap[w.vec[v].data_].slots, 1, w.vec[v].size_)

\* the failures T and the allocator can produce: a trivially copyable T has
\* no throwing copy constructor
Throws(fl, r) == /\ (fl.at # "none") = r.thrown
                 /\ trivial => fl.at \notin {"tmp", "copy", "construct"}

\* the places where copying n elements into a new buffer can throw
CopyFails(n) == {Fail("alloc", 0)} \cup {Fail("copy", k) : k \in 0..(n - 1)}
\* the places where push_back can throw
PushFails(v) == {NoFail, Fail("construct", 0)}
                  \cup (IF vec[v].size_ = vec[v].capacity_
                        THEN {Fail("tmp", 0)} \cup CopyFails(vec[v].size_) ELSE {})
\* the places where a swap of the shifting loop can throw: at iterator index i
SwapFails(lo, hi) == {Fail(a, i) : a \in {"swap0", "swap1"}, i \in lo..hi}

Commit(w, l) == /\ heap' = w.heap
                /\ vec' = w.vec
                /\ err' = w.err
                /\ last' = l
                /\ UNCHANGED trivial

\* the arguments of push_back and insert: a value of the caller's or, where one
\* instance is followed call by call, a reference to one of its own elements
Args(v) == {ValArg(x) : x \in Values}
             \cup (IF aux.pc = "one"
                   THEN {RefArg(vec[v].data_, i) : i \in 0..(vec[v].size_ - 1)}
                   ELSE {})

\* 1 + the index of the own element the argument refers to; 0 for a value
Alias(element) == IF element.ref THEN element.i + 1 ELSE 0

Grows(v) == vec[v].size_ = vec[v].capacity_ => calc_new_capacity(vec[v].capacity_) <= CapLimit

DefaultConstructCall(v) ==
  /\ ~vec[v].live
  /\ Commit(default_ctor(World, v), Call("vector", v, v, NoFail, 0, 0, 0, 0))

CopyConstructCall(v, other) ==
  /\ ~vec[v].live
  /\ vec[other].live
  /\ \E fl \in {NoFail} \cup CopyFails(vec[other].size_) :
       \E r \in {copy_ctor(World, v, other, fl, trivial)} :
          /\ Throws(fl, r)
          /\ Commit(r.w, Call("copy", v, other, fl, 0, 0, 0, 0))

AssignCall(v, other) ==
  /\ vec[v].live
  /\ vec[other].live
  /\ \E fl \in {NoFail} \cup CopyFails(vec[other].size_) :
       \E r \in {assign(World, v, other, fl, trivial)} :
          /\ Throws(fl, r)
          /\ Commit(r.w, Call("assign", v, other, fl, 0, 0, 0, 0))

DestructCall(v) ==
  /\ vec[v].live
  /\ Commit(dtor(World, v), Call("dtor", v, v, NoFail, 0, 0, 0, 0))

WriteCall(v) ==
  /\ vec[v].live
  /\ \E i \in 0..(vec[v].size_ - 1), x \in Values :
       Commit(write(World, v, i, x), Call("write", v, v, NoFail, 0, i, 0, x))

PushBackCall(v) ==
  /\ vec[v].live
  /\ Grows(v)
  /\ \E element \in Args(v), fl \in PushFails(v) :
       \E r \in {push_back(World, v, element, fl, trivial)} :
          /\ Throws(fl, r)
          /\ Commit(r.w, Call("push_back", v, v, fl, 0, 0, Alias(element), deref(World, element)))

PopBackCall(v) ==
  /\ vec[v].live
  /\ vec[v].size_ > 0
  /\ Commit(pop_back(World, v), Call("pop_back", v, v, NoFail, 0, 0, 0, 0))

ReserveCall(v) ==
  /\ vec[v].live
  /\ \E n \in 0..CapLimit, fl \in {NoFail} \cup CopyFails(vec[v].size_) :
       \E r \in {reserve(World, v, n, fl, trivial)} :
          /\ Throws(fl, r)
          /\ Commit(r.w, Call("reserve", v, v, fl, 0, n, 0, 0))

ShrinkToFitCall(v) ==
  /\ vec[v].live
  /\ \E fl \in {NoFail} \cup CopyFails(vec[v].size_) :
       \E r \in {shrink_to_fit(World, v, fl, trivial)} :
          /\ Throws(fl, r)
          /\ Commit(r.w, Call("shrink_to_fit", v, v, fl, 0, 0, 0, 0))

ClearCall(v) ==
  /\ vec[v].live
  /\ Commit(clear(World, v), Call("clear", v, v, NoFail, 0, 0, 0, 0))

SwapCall(v, other) ==
  /\ vec[v].live
  /\ vec[other].live
  /\ Commit(swap(World, v, other), Call("swap", v, other, NoFail, 0, 0, 0, 0))

InsertCall(v) ==
  /\ vec[v].live
  /\ Grows(v)
  /\ \E ind \in 0..vec[v].size_, element \in Args(v),
        fl \in PushFails(v) \cup SwapFails(1, vec[v].size_) :
       \E r \in {insert(World, v, ind, element, fl, trivial)} :
          /\ Throws(fl, r)
          /\ Commit(r.w, Call("insert", v, v, fl, r.ret, ind, Alias(element), deref(World, element)))

Erase1Call(v) ==
  /\ vec[v].live
  /\ \E pos \in 0..(vec[v].size_ - 1), fl \in {NoFail} \cup SwapFails(0, vec[v].size_ - 1) :
       \E r \in {erase1(World, v, pos, fl)} :
          /\ Throws(fl, r)
          /\ Commit(r.w, Call("erase", v, v, fl, r.ret, pos, pos + 1, 0))

EraseCall(v) ==
  /\ vec[v].live
  /\ \E first \in 0..vec[v].size_, lst \in 0..vec[v].size_,
        fl \in {NoFail} \cup SwapFails(0, vec[v].size_ - 1) :
       \E r \in {erase(World, v, first, lst, fl)} :
          /\ Throws(fl, r)
          /\ Commit(r.w, Call("erase", v, v, fl, r.ret, first, lst, 0))

DefaultConstruct(v) == DefaultConstructCall(v) /\ UNCHANGED aux
CopyConstruct(v, other) == CopyConstructCall(v, other) /\ UNCHANGED aux
Assign(v, other) == AssignCall(v, other) /\ UNCHANGED aux
Destruct(v) == DestructCall(v) /\ UNCHANGED aux
Write(v) == WriteCall(v) /\ UNCHANGED aux
PushBack(v) == PushBackCall(v) /\ UNCHANGED aux
PopBack(v) == PopBackCall(v) /\ UNCHANGED aux
Reserve(v) == ReserveCall(v) /\ UNCHANGED aux
ShrinkToFit(v) == ShrinkToFitCall(v) /\ UNCHANGED aux
Clear(v) == ClearCall(v) /\ UNCHANGED aux
Swap(v, other) == SwapCall(v, other) /\ UNCHANGED aux
Insert(v) == InsertCall(v) /\ UNCHANGED aux
Erase1(v) == Erase1Call(v) /\ UNCHANGED aux
Erase(v) == EraseCall(v) /\ UNCHANGED aux

NoCall == [op |-> "vector", v |-> "a", other |-> "a", at |-> "none", ret |-> 0,
           a1 |-> 0, a2 |-> 0, x |-> 0]

InitWorld == /\ heap = [b \in Bufs |-> FreeBuf]
             /\ err = {}
             /\ trivial \in BOOLEAN
             /\ last = NoCall

\* two default-constructed instances
Init == /\ InitWorld
        /\ vec = [v \in Insts |-> IF v \in Vecs THEN EmptyVec ELSE NoVec]
        /\ aux = [pc |-> "two", saved |-> <<>>, p |-> 0]

Next == \/ \E v \in Vecs : DefaultConstruct(v)
        \/ \E v, other \in Vecs : CopyConstruct(v, other)
        \/ \E v, other \in Vecs : Assign(v, other)
        \/ \E v \in Vecs : Destruct(v)
        \/ \E v \in Vecs : Write(v)
        \/ \E v \in Vecs : PushBack(v)
        \/ \E v \in Vecs : PopBack(v)
        \/ \E v \in Vecs : Reserve(v)
        \/ \E v \in Vecs : ShrinkToFit(v)
        \/ \E v \in Vecs : Clear(v)
        \/ \E v, other \in Vecs : Swap(v, other)
        \/ \E v \in Vecs : Insert(v)
        \/ \E v \in Vecs : Erase1(v)
        \/ \E v \in Vecs : Erase(v)

Spec == Init /\ [][Next]_vars

\* one default-constructed instance
InitOne == /\ InitWorld
           /\ vec = [v \in Insts |-> IF v = "a" THEN EmptyVec ELSE NoVec]
           /\ aux = [pc |-> "one", saved |-> <<>>, p |-> 0]

NextOne == \/ DefaultConstruct("a")
           \/ Assign("a", "a")
           \/ Destruct("a")
           \/ Write("a")
           \/ PushBack("a")
           \/ PopBack("a")
           \/ Reserve("a")
           \/ ShrinkToFit("a")
           \/ Clear("a")
           \/ Swap("a", "a")
           \/ Insert("a")
           \/ Erase1("a")
           \/ Erase("a")

SpecOne == InitOne /\ [][NextOne]_vars

\* a default-constructed instance that only sees successful push_back calls
InitPush == /\ InitWorld
            /\ vec = [v \in Insts |-> IF v = "a" THEN EmptyVec ELSE NoVec]
            /\ aux = [pc |-> "push", saved |-> <<>>, p |-> 0]

PushOnly == /\ aux.pc = "push"
            /\ Len(aux.saved) < MaxPush
            /\ PushBackCall("a")
            /\ last'.at = "none"
            /\ aux' = [aux EXCEPT !.saved = Append(@, last'.x)]

NextPush == PushOnly

SpecPush == InitPush /\ [][NextPush]_vars

\* an instance of any content and capacity, then insert at p, then erase at p
InitRT == /\ err = {}
          /\ trivial \in BOOLEAN
          /\ last = NoCall
          /\ \E cap \in 0..MaxCapOne : \E size \in 0..cap : \E s \in [1..size -> Values] :
               /\ heap = [b \in Bufs |-> IF b = 1 /\ cap > 0
                                         THEN [alloc |-> TRUE,
                                               slots |-> [i \in 1..cap |-> IF i <= size THEN s[i] ELSE Raw]]
                                         ELSE FreeBuf]
               /\ vec = [v \in Insts |-> IF v = "a"
                                         THEN [live |-> TRUE, data_ |-> IF cap > 0 THEN 1 ELSE nullptr,
                                               size_ |-> size, capacity_ |-> cap]
                                         ELSE NoVec]
               /\ aux = [pc |-> "rt0", saved |-> s, p |-> 0]

RTInsert == /\ aux.pc = "rt0"
            /\ InsertCall("a")
            /\ last'.at = "none"
            /\ aux' = [aux EXCEPT !.pc = "rt1", !.p = last'.ret]

RTErase == /\ aux.pc = "rt1"
           /\ Erase1Call("a")
           /\ last'.at = "none"
           /\ last'.ret = aux.p
           /\ aux' = [aux EXCEPT !.pc = "rt2"]

NextRT == RTInsert \/ RTErase

SpecRT == InitRT /\ [][NextRT]_vars

----------------------------------------------------------------------------
(* Properties                                                               *)

Size(v) == vec[v].size_
Capacity(v) == vec[v].capacity_
Cont(v) == Contents(World, v)
Max(a, b) == IF a >= b THEN a ELSE b
\* the same after the step
SizeN(v) == vec'[v].size_
CapacityN(v) == vec'[v].capacity_
ContN(v) == Contents([heap |-> heap', vec |-> vec', err |-> err'], v)

\* the heap, the members of every instance and the lifetime flags are as before
SameWorld == heap' = heap /\ vec' = vec /\ err' = err

\* C1: if a copy constructor of T throws during a push_back called with
\* size == capacity, then size, capacity and the elements are as before the call
C1_PushBackStrong ==
  [][(/\ last'.op = "push_back"
      /\ last'.at = "copy"
      /\ Size(last'.v) = Capacity(last'.v))
     => (/\ SizeN(last'.v) = Size(last'.v)
         /\ CapacityN(last'.v) = Capacity(last'.v)
         /\ ContN(last'.v) = Cont(last'.v))]_vars

\* C2: in every reachable state, failed calls included, every instance has
\* size <= capacity, and capacity == 0 implies a null buffer
C2_SizeCapacity ==
  \A v \in Vecs : vec[v].live =>
    /\ vec[v].size_ <= vec[v].capacity_
    /\ vec[v].capacity_ = 0 => vec[v].data_ = nullptr

\* after a call that threw, "a" holds no buffer and "b" holds spare capacity
C2_Witness ==
  /\ last.at \in {"alloc", "copy"}
  /\ vec["a"].live /\ vec["a"].capacity_ = 0
  /\ vec["b"].live /\ vec["b"].size_ > 0 /\ vec["b"].size_ < vec["b"].capacity_

NoSharedBuffer ==
  \A v, u \in Vecs :
    (v # u /\ vec[v].live /\ vec[u].live /\ vec[v].data_ # nullptr)
      => vec[v].data_ # vec[u].data_

\* C3: no two live instances hold the same non-null buffer, and a call on one
\* instance changes neither the members nor the elements of another instance
C3_Independent ==
  /\ []NoSharedBuffer
  /\ [][\A u \in Vecs : (vec[u].live /\ last'.v # u /\ last'.other # u)
           => (vec'[u] = vec[u] /\ ContN(u) = Cont(u))]_vars

\* "b" was changed by a call while "a" and "b" both hold elements in buffers of their own
C3_Witness ==
  /\ last.op = "call" /\ last.v = "b" /\ last.at = "none"
  /\ vec["a"].live /\ vec["b"].live
  /\ vec["a"].data_ # nullptr /\ vec["b"].data_ # nullptr
  /\ vec["a"].size_ = 2 /\ vec["b"].size_ = 1

\* the capacity after k push_back calls on an empty instance: 0, 1, 2, 4, 4, 8, ...
RECURSIVE Schedule(_)
Schedule(k) == IF k <= 1 THEN k ELSE 2 * Schedule((k + 1) \div 2)

\* C4: after k successful push_back calls on a default-constructed instance
\* size == k and capacity follows 1, 2, 4, 8, ...; a push_back changes capacity
\* only when size == capacity, to max(1, 2 * capacity)
C4_Doubling ==
  /\ [](Size("a") = Len(aux.saved) /\ Capacity("a") = Schedule(Len(aux.saved)))
  /\ [][CapacityN("a") = IF Size("a") = Capacity("a")
                         THEN Max(1, 2 * Capacity("a")) ELSE Capacity("a")]_vars

C4_Witness == Size("a") = 5 /\ Capacity("a") = 8 /\ last.op = "push_back"

\* C5: a reserve or shrink_to_fit whose allocation or k-th element copy fails
\* leaves no new buffer and no copied element behind, and the buffer, size,
\* capacity and elements of the instance are as before the call
C5_ReallocRollback ==
  [][(last'.op \in {"reserve", "shrink_to_fit"} /\ last'.at # "none") => SameWorld]_vars

\* a reserve on two or more elements failed in an element copy
C5_Witness ==
  /\ last.op = "reserve" /\ last.at = "copy"
  /\ Size("a") >= 2

\* C6: a copy assignment that fails in the allocation or in an element copy
\* leaves both instances as before, and a self-assignment changes nothing
C6_AssignStrong ==
  [][(last'.op = "assign" /\ (last'.at # "none" \/ last'.v = last'.other)) => SameWorld]_vars

\* "a = b" failed in an element copy, both holding elements
C6_Witness ==
  /\ last.op = "assign" /\ last.at = "copy"
  /\ last.v = "a" /\ last.other = "b"
  /\ Size("a") > 0 /\ Size("b") > 1

\* s with x put before index p
InsertAt(s, p, x) == SubSeq(s, 1, p) \o <<x>> \o SubSeq(s, p + 1, Len(s))
\* s without the elements of indices first .. lst - 1
EraseRange(s, first, lst) == SubSeq(s, 1, first) \o SubSeq(s, lst + 1, Len(s))

\* C7: a successful insert(p, x) yields s[0..p) ++ [x] ++ s[p..size), grows
\* size by one and returns the iterator of index p
C7_InsertSeq ==
  [][(last'.op = "insert" /\ last'.at = "none")
     => (/\ ContN(last'.v) = InsertAt(Cont(last'.v), last'.a1, last'.x)
         /\ SizeN(last'.v) = Size(last'.v) + 1
         /\ last'.ret = last'.a1)]_vars

\* an insert in the middle of three elements that reallocated
C7_Witness ==
  /\ last.op = "insert" /\ last.at = "none"
  /\ last.a1 = 1 /\ Size("a") = 3 /\ Capacity("a") = 4
  /\ Cont("a")[1] # Cont("a")[2]

\* C8: a successful erase(first, last) with first < last yields
\* s[0..first) ++ s[last..size), reduces size by last - first, keeps capacity
\* and returns the iterator of index first
C8_EraseSeq ==
  [][(last'.op = "erase" /\ last'.at = "none" /\ last'.a1 < last'.a2)
     => (/\ ContN(last'.v) = EraseRange(Cont(last'.v), last'.a1, last'.a2)
         /\ SizeN(last'.v) = Size(last'.v) - (last'.a2 - last'.a1)
         /\ CapacityN(last'.v) = Capacity(last'.v)
         /\ last'.ret = last'.a1)]_vars

\* an erase of two elements in front of two different survivors
C8_Witness ==
  /\ last.op = "erase" /\ last.at = "none"
  /\ last.a1 = 0 /\ last.a2 = 2
  /\ Size("a") = 2 /\ Cont("a")[1] # Cont("a")[2]

\* C9: insert(p, x) followed by erase at index p gives back the original sequence
C9_RoundTrip ==
  aux.pc = "rt2" => (Cont("a") = aux.saved /\ Size("a") = Len(aux.saved))

\* the round trip was made in the middle of three elements
C9_Witness ==
  /\ aux.pc = "rt2"
  /\ Len(aux.saved) = 3 /\ aux.p = 1
  /\ aux.saved[1] # aux.saved[2]

\* C10: swap exchanges buffer, size and capacity of the two instances, hence
\* their element sequences, and leaves the heap and every element as it is
C10_SwapExchanges ==
  [][last'.op = "swap"
     => (/\ vec'[last'.v] = vec[last'.other]
         /\ vec'[last'.other] = vec[last'.v]
         /\ ContN(last'.v) = Cont(last'.other)
         /\ ContN(last'.other) = Cont(last'.v)
         /\ heap' = heap
         /\ err' = err)]_vars

\* "a" and "b" were swapped, with different sizes and capacities
C10_Witness ==
  /\ last.op = "swap" /\ last.v = "a" /\ last.other = "b"
  /\ Size("a") = 1 /\ Capacity("a") = 2
  /\ Size("b") = 2 /\ Capacity("b") = 2 /\ vec["a"].data_ # nullptr

\* C11: a successful reserve(n) keeps size and elements and leaves
\* capacity >= max(n, old capacity); with n <= capacity it changes nothing,
\* so reserve never reduces capacity
C11_Reserve ==
  [][(last'.op = "reserve" /\ last'.at = "none")
     => (/\ SizeN(last'.v) = Size(last'.v)
         /\ ContN(last'.v) = Cont(last'.v)
         /\ CapacityN(last'.v) >= Max(last'.a1, Capacity(last'.v))
         /\ last'.a1 <= Capacity(last'.v) => SameWorld)]_vars

\* a reserve(4) moved two elements out of a buffer of two slots
C11_Witness ==
  /\ last.op = "reserve" /\ last.at = "none" /\ last.a1 = 4
  /\ Size("a") = 2 /\ Capacity("a") = 4
  /\ Cont("a")[1] # Cont("a")[2]

\* C12: after a successful shrink_to_fit capacity == size, with size and
\* elements as before; an empty instance gives its buffer back and holds
\* nullptr, and with size == capacity nothing is reallocated
C12_ShrinkToFit ==
  [][(last'.op = "shrink_to_fit" /\ last'.at = "none")
     => (/\ CapacityN(last'.v) = SizeN(last'.v)
         /\ SizeN(last'.v) = Size(last'.v)
         /\ ContN(last'.v) = Cont(last'.v)
         /\ Size(last'.v) = 0 => (/\ vec'[last'.v].data_ = nullptr
                                  /\ \A b \in Bufs : ~heap'[b].alloc)
         /\ Size(last'.v) = Capacity(last'.v) => SameWorld)]_vars

\* a shrink_to_fit on an empty instance that held a buffer
C12_Witness ==
  /\ last.op = "shrink_to_fit" /\ last.at = "none"
  /\ vec["a"].live /\ Size("a") = 0 /\ Capacity("a") = 0
  /\ vec["a"].data_ = nullptr

\* C13: erase(first, last) with last - first <= 0 changes nothing and returns
\* the iterator of index last
C13_EraseEmpty ==
  [][(last'.op = "erase" /\ last'.at = "none" /\ last'.a2 - last'.a1 <= 0)
     => (SameWorld /\ last'.ret = last'.a2)]_vars

\* an erase(2, 1) on three elements
C13_Witness ==
  /\ last.op = "erase" /\ last.at = "none"
  /\ last.a1 = 2 /\ last.a2 = 1 /\ Size("a") = 3

WorldN == [heap |-> heap', vec |-> vec', err |-> err']

\* instance v of w is valid: size <= capacity, the slots of [0, size) hold
\* constructed elements, those of [size, capacity) none, and destroying the
\* instance destroys each element once and frees the buffer
Valid(w, v) ==
  /\ w.vec[v].live
  /\ w.err = {}
  /\ w.vec[v].size_ <= w.vec[v].capacity_
  /\ w.vec[v].capacity_ > 0 =>
       /\ w.vec[v].data_ \in Bufs
       /\ w.heap[w.vec[v].data_].alloc
       /\ Len(w.heap[w.vec[v].data_].slots) = w.vec[v].capacity_
       /\ \A i \in 1..w.vec[v].capacity_ :
            (w.heap[w.vec[v].data_].slots[i] # Raw) = (i <= w.vec[v].size_)
  /\ dtor(w, v).err = {}
  /\ \A b \in Bufs : ~dtor(w, v).heap[b].alloc

\* the number of elements of s equal to x
Count(s, x) == Cardinality({i \in DOMAIN s : s[i] = x})
\* s and t hold the same elements, in any order
SameElements(s, t) == \A x \in Values : Count(s, x) = Count(t, x)
\* the elements a failed shift started from: insert has appended its value
ShiftStart == IF last'.op = "insert" THEN Append(Cont(last'.v), last'.x) ELSE Cont(last'.v)

\* C14 as stated: when a swap of the shifting loop of insert or erase throws,
\* the container is valid and only the order of its elements may differ
C14_OnlyOrder ==
  [][(last'.op \in {"insert", "erase"} /\ last'.at = "swap")
     => (Valid(WorldN, last'.v) /\ SameElements(ContN(last'.v), ShiftStart))]_vars

\* C14: when a swap of the shifting loop of insert or erase throws, the
\* container is valid, its size is the one the shift started from and each
\* of its elements is one of the elements the shift started from
C14_WeakValid ==
  [][(last'.op \in {"insert", "erase"} /\ last'.at = "swap")
     => (/\ Valid(WorldN, last'.v)
         /\ Len(ContN(last'.v)) = Len(ShiftStart)
         /\ CapacityN(last'.v) >= Capacity(last'.v)
         /\ \A i \in DOMAIN ContN(last'.v) :
              \E j \in DOMAIN ShiftStart : ContN(last'.v)[i] = ShiftStart[j])]_vars

\* an insert whose swap threw left the value 2 twice and no 1
C14_Witness ==
  /\ last.op = "insert" /\ last.at = "swap" /\ last.x = 1
  /\ Size("a") = 3 /\ Cont("a") = <<2, 2, 2>>

\* the live instances whose data_ is buffer b
Owners(b) == {v \in Vecs : vec[v].live /\ vec[v].data_ = b}

\* C15: no buffer is freed twice or while it holds a constructed element, no
\* element is constructed or destructed twice, no slot of [size, capacity) is
\* destructed (err records each of these), and every allocated buffer belongs
\* to exactly one live instance with elements exactly in [0, size), so that the
\* destructors free every buffer and destruct every element
C15_Lifetimes ==
  /\ err = {}
  /\ \A b \in Bufs :
       IF heap[b].alloc
       THEN /\ Cardinality(Owners(b)) = 1
            /\ \A v \in Owners(b) :
                 /\ Len(heap[b].slots) = vec[v].capacity_
                 /\ \A i \in 1..vec[v].capacity_ : (heap[b].slots[i] # Raw) = (i <= vec[v].size_)
       ELSE Owners(b) = {} /\ heap[b] = FreeBuf

\* the destructor of "b" has run after that of "a", and no buffer is left
C15_Witness ==
  /\ last.op = "call" /\ last.v = "b" /\ last.at = "none"
  /\ ~vec["a"].live /\ ~vec["b"].live
  /\ \A b \in Bufs : ~heap[b].alloc

\* C16: on one instance, a call of push_back, pop_back, insert, erase, clear
\* or reserve, failed or not, never lowers capacity; clear sets size to 0 and
\* keeps capacity and buffer; a call that lowers capacity is a shrink_to_fit,
\* a copy assignment or a swap
C16_CapacityMonotone ==
  [][(vec[last'.v].live /\ vec'[last'.v].live)
     => (/\ last'.op \in {"push_back", "pop_back", "insert", "erase", "clear", "reserve"}
              => CapacityN(last'.v) >= Capacity(last'.v)
         /\ last'.op = "clear"
              => (/\ SizeN(last'.v) = 0
                  /\ CapacityN(last'.v) = Capacity(last'.v)
                  /\ vec'[last'.v].data_ = vec[last'.v].data_)
         /\ CapacityN(last'.v) < Capacity(last'.v)
              => last'.op \in {"shrink_to_fit", "assign", "swap"})]_vars

\* a clear has emptied an instance that keeps a buffer of four slots
C16_Witness ==
  /\ last.op = "clear" /\ vec["a"].live
  /\ Size("a") = 0 /\ Capacity("a") = 4 /\ vec["a"].data_ # nullptr

\* C17: a successful push_back(x) or insert(p, x) whose x refers to element i
\* of the same container appends or inserts the value element i had before
\* the call, whether the call reallocates or not
C17_Aliasing ==
  [][(last'.op \in {"push_back", "insert"} /\ last'.at = "none" /\ last'.a2 > 0)
     => (/\ err' = {}
         /\ last'.op = "push_back"
              => ContN(last'.v) = Append(Cont(last'.v), Cont(last'.v)[last'.a2])
         /\ last'.op = "insert"
              => ContN(last'.v) = InsertAt(Cont(last'.v), last'.a1, Cont(last'.v)[last'.a2]))]_vars

\* insert(begin(), back()) on a full buffer of two elements has reallocated
C17_Witness ==
  /\ last.op = "insert" /\ last.at = "none" /\ last.a1 = 0 /\ last.a2 = 2
  /\ Size("a") = 3 /\ Capacity("a") = 4 /\ Cont("a") = <<2, 1, 2>>

\* C18: a successful copy construction gives the new instance the size and
\* the elements of the source and a capacity equal to the source's size; from
\* an empty source it allocates nothing and leaves a null buffer; a successful
\* copy assignment a = b leaves a with b's elements and capacity == b's size
C18_CopyCapacity ==
  [][/\ (last'.op = "copy" /\ last'.at = "none")
          => (/\ CapacityN(last'.v) = Size(last'.other)
              /\ SizeN(last'.v) = Size(last'.other)
              /\ ContN(last'.v) = Cont(last'.other)
              /\ Size(last'.other) = 0
                   => (vec'[last'.v].data_ = nullptr /\ heap' = heap))
     /\ (last'.op = "assign" /\ last'.at = "none" /\ last'.v # last'.other)
          => (/\ CapacityN(last'.v) = Size(last'.other)
              /\ ContN(last'.v) = Cont(last'.other))]_vars

\* "b" is a copy of "a", which is empty and keeps a buffer
C18_Witness ==
  /\ last.op = "copy" /\ last.at = "none" /\ last.v = "b" /\ last.other = "a"
  /\ vec["a"].live /\ Size("a") = 0 /\ Capacity("a") > 0
  /\ vec["b"].live /\ Capacity("b") = 0 /\ vec["b"].data_ = nullptr

====
